---- MODULE Spec2Model ----
(***************************************************************************)
(* Model of src/notify_on_failure.py: one run of the script, from the      *)
(* start-up code under `if __name__ == "__main__"` through main() to the   *)
(* process exit status.                                                    *)
(*                                                                         *)
(* Text that the code parses (branch names, patterns, CI_COMMIT_AUTHOR,    *)
(* e-mail addresses, git output) is a sequence of one-character strings so *)
(* that strip(), re.search and the "<...>" capture are computed, not       *)
(* assumed.  Opaque identifiers (token, user ids, channel ids) are plain   *)
(* strings, "" being Python's empty string.  An environment variable whose *)
(* absence and emptiness the code cannot tell apart (getenv(name, ""))     *)
(* is one string; the two whose default is not "" are option sets: {} is   *)
(* unset, {v} is set to v.                                                 *)
(*                                                                         *)
(* Every Slack call has two outcomes, a successful response or a           *)
(* SlackApiError; the display-only fields of the message (project path,    *)
(* short sha, pipeline id and url, commit title) decide nothing and are    *)
(* left out of the message record.                                         *)
(***************************************************************************)
EXTENDS Integers, Sequences, FiniteSets, TLC

VARIABLES env, pc, author_email, blocks_author, slack_user_id, channel_id,
          calls, exit_code, raised

vars == <<env, pc, author_email, blocks_author, slack_user_id, channel_id,
          calls, exit_code, raised>>

-----------------------------------------------------------------------------
(* Text values *)

main_b    == <<"m","a","i","n">>
dev_b     == <<"d","e","v">>
unknown   == <<"u","n","k","n","o","w","n">>
a_x       == <<"a","@","x">>
b_x       == <<"b","@","x">>
c_x       == <<"c","@","x">>

Branches == {main_b, dev_b, <<"d","e","v","-","m","a","i","n">>}

DEFAULT_BRANCH_REGEX == <<".","*">>

Patterns == {<<"^","m","a","i","n","$">>, <<"m","a","i","n">>,
             <<"^","d","e","v">>, <<"u","n","*","k">>}

AuthorStrings == {<<>>,
                  <<"J"," ","<","a","@","x",">">>,
                  <<"J","a","n","e">>,
                  <<"<",">">>,
                  <<"<"," ",">">>,
                  <<"<",">","<","b","@","x",">">>,
                  <<"<"," ","b","@","x"," ",">","<","a","@","x",">">>,
                  <<"<","a","@","x">>}

GitlabEmails == {<<>>, c_x}

\* what `git show -s --format=%ae <sha>` can do: raise (tool absent, unknown
\* commit, shallow clone: check_output raises on a non-zero exit) or print a line
GitResults == {[raised |-> TRUE,  out |-> <<>>],
               [raised |-> FALSE, out |-> <<"\n">>],
               [raised |-> FALSE, out |-> <<"a","@","x","\n">>],
               [raised |-> FALSE, out |-> <<"b","@","x","\n">>]}

Tokens == {"", "xoxb-1"}
ProjectDirs == {"", "/builds/p"}
FallbackChannels == {"", "#ci-failures", "ci"}

\* SLACK_MAPPINGS_JSON after json.loads: unset/empty, text that is not JSON,
\* JSON that is not an object, or an object whose "email_to_user_id" table is
\* `table` (the empty function when the key is absent; "" stands for null or "")
Mappings == {[kind |-> "unset",     table |-> <<>>],
             [kind |-> "malformed", table |-> <<>>],
             [kind |-> "array",     table |-> <<>>],
             [kind |-> "object",    table |-> <<>>],
             [kind |-> "object",    table |-> [e \in {a_x} |-> "U1"]],
             [kind |-> "object",    table |-> [e \in {a_x, c_x} |-> IF e = a_x THEN "" ELSE "U3"]]}

SlackOutcomes == {"ok", "SlackApiError"}
DirectoryIds == {"U9"}
DmChannelIds == {"D1", ""}

-----------------------------------------------------------------------------
(* Pure functions *)

getenv(opt, default) == IF opt = {} THEN default ELSE CHOOSE v \in opt : TRUE

IsSpace(c) == c \in {" ", "\n", "\t", "\r"}

RECURSIVE lstrip(_)
lstrip(s) == IF s = <<>> \/ ~IsSpace(Head(s)) THEN s ELSE lstrip(Tail(s))

RECURSIVE rstrip(_)
rstrip(s) == IF s = <<>> \/ ~IsSpace(s[Len(s)]) THEN s ELSE rstrip(SubSeq(s, 1, Len(s) - 1))

strip(s) == rstrip(lstrip(s))

\* re.search(r"<([^>]+)>", s): the leftmost "<" that is followed by at least one
\* character other than ">" and then a ">"; group 1 is what lies between
CaptureEnd(s, i) == IF \E j \in (i + 1)..Len(s) : s[j] = ">"
                    THEN CHOOSE j \in (i + 1)..Len(s) :
                           s[j] = ">" /\ \A k \in (i + 1)..(j - 1) : s[k] # ">"
                    ELSE 0

CaptureAt(s, i) == s[i] = "<" /\ CaptureEnd(s, i) > i + 1

parse_email_from_ci_commit_author(s) ==
    IF s = <<>> THEN <<>>
    ELSE IF \E i \in 1..Len(s) : CaptureAt(s, i)
         THEN LET i == CHOOSE i \in 1..Len(s) :
                         CaptureAt(s, i) /\ \A h \in 1..(i - 1) : ~CaptureAt(s, h)
              IN  strip(SubSeq(s, i + 1, CaptureEnd(s, i) - 1))
         ELSE <<>>

\* re.search(pattern, text) for patterns built from literals, ".", "x*", a
\* leading "^" and a trailing "$"
RECURSIVE matchhere(_, _)
RECURSIVE matchstar(_, _, _)
matchhere(re, text) ==
    IF re = <<>> THEN TRUE
    ELSE IF Len(re) >= 2 /\ re[2] = "*"
         THEN matchstar(re[1], SubSeq(re, 3, Len(re)), text)
    ELSE IF re = <<"$">> THEN text = <<>>
    ELSE IF text # <<>> /\ (re[1] = "." \/ re[1] = text[1])
         THEN matchhere(Tail(re), Tail(text))
    ELSE FALSE

matchstar(c, re, text) ==
    \/ matchhere(re, text)
    \/ /\ text # <<>>
       /\ (c = "." \/ c = text[1])
       /\ matchstar(c, re, Tail(text))

re_search(re, text) ==
    IF re # <<>> /\ re[1] = "^"
    THEN matchhere(Tail(re), text)
    ELSE \E i \in 0..Len(text) : matchhere(re, SubSeq(text, i + 1, Len(text)))

load_mapping_user_id(email) ==
    LET m == env.SLACK_MAPPINGS_JSON IN
    IF m.kind = "unset" \/ email = <<>> THEN ""
    ELSE IF m.kind # "object" THEN ""
    ELSE IF email \in DOMAIN m.table THEN m.table[email]
    ELSE ""

-----------------------------------------------------------------------------
(* The record of one external call *)

Call(api, target, email, arg, author, ok) ==
    [api |-> api, target |-> target, email |-> email, arg |-> arg,
     author |-> author, ok |-> ok]

SlackApis == {"users_lookupByEmail", "conversations_open", "chat_postMessage"}
GitApis == {"git_config", "git_fetch", "git_show"}

Init ==
    /\ env \in [SLACK_BOT_TOKEN : Tokens,
                CI_PROJECT_DIR : ProjectDirs,
                CI_COMMIT_REF_NAME : {{}} \cup {{b} : b \in Branches},
                NOTIFY_BRANCH_REGEX : {{}} \cup {{p} : p \in Patterns},
                CI_COMMIT_AUTHOR : AuthorStrings,
                GITLAB_USER_EMAIL : GitlabEmails,
                SLACK_MAPPINGS_JSON : Mappings,
                SLACK_FALLBACK_CHANNEL : FallbackChannels]
    /\ pc = "startup"
    /\ author_email = <<>>
    /\ blocks_author = <<>>
    /\ slack_user_id = ""
    /\ channel_id = ""
    /\ calls = <<>>
    /\ exit_code = "running"
    /\ raised = ""

-----------------------------------------------------------------------------
(* Start-up code, lines 208-217: runs before main(), whatever the token *)

Log(c) == calls' = Append(calls, c)

\* proj_dir unset or empty: nothing is run; otherwise `git config --global --add
\* safe.directory`; subprocess.run raising (git absent) skips the fetch
StartupSafeDirectory ==
    /\ pc = "startup"
    /\ IF env.CI_PROJECT_DIR = ""
       THEN /\ pc' = "main"
            /\ UNCHANGED calls
       ELSE \E ran \in BOOLEAN :
                /\ Log(Call("git_config", env.CI_PROJECT_DIR, <<>>, "", <<>>, ran))
                /\ pc' = IF ran THEN "startup_fetch" ELSE "main"
    /\ UNCHANGED <<env, author_email, blocks_author, slack_user_id, channel_id,
                   exit_code, raised>>

\* `git fetch --unshallow`, check=False, every error discarded
StartupUnshallow ==
    /\ pc = "startup_fetch"
    /\ \E ran \in BOOLEAN : Log(Call("git_fetch", "", <<>>, "", <<>>, ran))
    /\ pc' = "main"
    /\ UNCHANGED <<env, author_email, blocks_author, slack_user_id, channel_id,
                   exit_code, raised>>

-----------------------------------------------------------------------------
(* main() *)

Return(code) == /\ pc' = "done"
                /\ exit_code' = code

\* an exception nobody catches leaves main(): traceback, exit status 1
Uncaught(exc) == /\ pc' = "done"
                 /\ exit_code' = "1"
                 /\ raised' = exc

\* TokenCheck without the early return
TokenCheck_NoReturn ==
    /\ pc = "main"
    /\ pc' = "filter"
    /\ UNCHANGED <<env, author_email, blocks_author, slack_user_id, channel_id,
                   calls, exit_code, raised>>

\* lines 119-125: WebClient(token=token) only builds the client
TokenCheck ==
    /\ pc = "main"
    /\ IF env.SLACK_BOT_TOKEN = ""
       THEN Return("0")
       ELSE /\ pc' = "filter"
            /\ UNCHANGED exit_code
    /\ UNCHANGED <<env, author_email, blocks_author, slack_user_id, channel_id,
                   calls, raised>>

\* re.match: anchored at the start of the text
re_match(re, text) ==
    matchhere(IF re # <<>> /\ re[1] = "^" THEN Tail(re) ELSE re, text)

\* BranchFilter with re.match in place of re.search
BranchFilter_Match ==
    /\ pc = "filter"
    /\ LET branch == getenv(env.CI_COMMIT_REF_NAME, unknown)
           branch_regex == getenv(env.NOTIFY_BRANCH_REGEX, DEFAULT_BRANCH_REGEX)
       IN  IF ~re_match(branch_regex, branch)
           THEN Return("0")
           ELSE /\ pc' = "git_show"
                /\ UNCHANGED exit_code
    /\ UNCHANGED <<env, author_email, blocks_author, slack_user_id, channel_id,
                   calls, raised>>

\* lines 127-131
BranchFilter ==
    /\ pc = "filter"
    /\ LET branch == getenv(env.CI_COMMIT_REF_NAME, unknown)
           branch_regex == getenv(env.NOTIFY_BRANCH_REGEX, DEFAULT_BRANCH_REGEX)
       IN  IF ~re_search(branch_regex, branch)
           THEN Return("0")
           ELSE /\ pc' = "git_show"
                /\ UNCHANGED exit_code
    /\ UNCHANGED <<env, author_email, blocks_author, slack_user_id, channel_id,
                   calls, raised>>

\* lines 43-51 and 135; the call record keeps the e-mail the function returned
run_git_show_email ==
    /\ pc = "git_show"
    /\ \E r \in GitResults :
         LET email == IF r.raised THEN <<>> ELSE strip(r.out)
         IN  /\ Log(Call("git_show", "", email, "", <<>>, ~r.raised))
             /\ author_email' = email
    /\ pc' = "ci_commit_author"
    /\ UNCHANGED <<env, blocks_author, slack_user_id, channel_id, exit_code, raised>>

\* lines 136-137
AuthorFromCICommitAuthor ==
    /\ pc = "ci_commit_author"
    /\ author_email' = IF author_email = <<>>
                       THEN parse_email_from_ci_commit_author(env.CI_COMMIT_AUTHOR)
                       ELSE author_email
    /\ pc' = "gitlab_user_email"
    /\ UNCHANGED <<env, blocks_author, slack_user_id, channel_id, calls,
                   exit_code, raised>>

\* AuthorFromGitlabUserEmail without its `if not author_email` guard
AuthorFromGitlabUserEmail_Overrides ==
    /\ pc = "gitlab_user_email"
    /\ author_email' = IF env.GITLAB_USER_EMAIL # <<>> THEN env.GITLAB_USER_EMAIL
                       ELSE author_email
    /\ pc' = "build"
    /\ UNCHANGED <<env, blocks_author, slack_user_id, channel_id, calls,
                   exit_code, raised>>

\* lines 138-139
AuthorFromGitlabUserEmail ==
    /\ pc = "gitlab_user_email"
    /\ author_email' = IF author_email = <<>> THEN env.GITLAB_USER_EMAIL
                       ELSE author_email
    /\ pc' = "build"
    /\ UNCHANGED <<env, blocks_author, slack_user_id, channel_id, calls,
                   exit_code, raised>>

\* `author_email or 'unknown'`
AuthorOrUnknown(email) == IF email = <<>> THEN unknown ELSE email

\* lines 141-179: the "*Author:*" field of the blocks
BuildMessage ==
    /\ pc = "build"
    /\ blocks_author' = AuthorOrUnknown(author_email)
    /\ pc' = "resolve_user"
    /\ UNCHANGED <<env, author_email, slack_user_id, channel_id, calls,
                   exit_code, raised>>

\* ResolveFromMapping with the remote lookup made whatever the table gives
ResolveFromMapping_AlwaysLookup ==
    /\ pc = "resolve_user"
    /\ IF author_email = <<>>
       THEN /\ slack_user_id' = ""
            /\ pc' = "try_dm"
       ELSE /\ slack_user_id' = load_mapping_user_id(author_email)
            /\ pc' = "lookup"
    /\ UNCHANGED <<env, author_email, blocks_author, channel_id, calls,
                   exit_code, raised>>

\* lines 182-184, left operand of `or`: the static table; the right operand is
\* evaluated only when the table gives ""
ResolveFromMapping ==
    /\ pc = "resolve_user"
    /\ IF author_email = <<>>
       THEN /\ slack_user_id' = ""
            /\ pc' = "try_dm"
       ELSE LET id == load_mapping_user_id(author_email)
            IN  /\ slack_user_id' = id
                /\ pc' = IF id # "" THEN "try_dm" ELSE "lookup"
    /\ UNCHANGED <<env, author_email, blocks_author, channel_id, calls,
                   exit_code, raised>>

\* lookup_user_id_by_email without its `except SlackApiError`
lookup_user_id_by_email_Raises ==
    /\ pc = "lookup"
    /\ \E o \in SlackOutcomes :
         IF o = "SlackApiError"
         THEN /\ Log(Call("users_lookupByEmail", "", author_email, "", <<>>, FALSE))
              /\ Uncaught("SlackApiError")
              /\ UNCHANGED slack_user_id
         ELSE \E id \in DirectoryIds :
                /\ Log(Call("users_lookupByEmail", "", author_email, "", <<>>, TRUE))
                /\ slack_user_id' = id
                /\ pc' = "try_dm"
                /\ UNCHANGED <<exit_code, raised>>
    /\ UNCHANGED <<env, author_email, blocks_author, channel_id>>

\* lines 63-76; the e-mail is not empty here
lookup_user_id_by_email ==
    /\ pc = "lookup"
    /\ \E o \in SlackOutcomes :
         IF o = "SlackApiError"
         THEN /\ Log(Call("users_lookupByEmail", "", author_email, "", <<>>, FALSE))
              /\ slack_user_id' = ""
         ELSE \E id \in DirectoryIds :
                /\ Log(Call("users_lookupByEmail", "", author_email, "", <<>>, TRUE))
                /\ slack_user_id' = id
    /\ pc' = "try_dm"
    /\ UNCHANGED <<env, author_email, blocks_author, channel_id, exit_code, raised>>

\* lines 187-188 and 79-89
open_dm ==
    /\ pc = "try_dm"
    /\ slack_user_id # ""
    /\ \E o \in SlackOutcomes :
         IF o = "SlackApiError"
         THEN /\ Log(Call("conversations_open", slack_user_id, <<>>, "", <<>>, FALSE))
              /\ channel_id' = ""
         ELSE \E ch \in DmChannelIds :
                /\ Log(Call("conversations_open", slack_user_id, <<>>, "", <<>>, TRUE))
                /\ channel_id' = ch
    /\ pc' = IF channel_id' # "" THEN "post_dm" ELSE "fallback"
    /\ UNCHANGED <<env, author_email, blocks_author, slack_user_id, exit_code, raised>>

\* lines 194-195
NoSlackUser ==
    /\ pc = "try_dm"
    /\ slack_user_id = ""
    /\ pc' = "fallback"
    /\ UNCHANGED <<env, author_email, blocks_author, slack_user_id, channel_id,
                   calls, exit_code, raised>>

\* lines 92-103.  The call is sent to the literal "ci", whatever `channel` is.
\* On SlackApiError the handler prints `response`, a local the failed call never
\* bound: UnboundLocalError leaves post_message.
PostedTo(channel) == "ci"

post_message(channel, text_author, o) ==
    [call   |-> Call("chat_postMessage", PostedTo(channel), <<>>, channel,
                     text_author, o = "ok"),
     result |-> IF o = "ok" THEN "True" ELSE "UnboundLocalError"]

\* PostDM without the `return 0` after a successful DM
PostDM_NoReturn ==
    /\ pc = "post_dm"
    /\ \E o \in SlackOutcomes :
         LET r == post_message(channel_id, <<>>, o)
         IN  /\ Log(r.call)
             /\ IF r.result = "True"
                THEN pc' = "fallback" /\ UNCHANGED <<exit_code, raised>>
                ELSE Uncaught(r.result)
    /\ UNCHANGED <<env, author_email, blocks_author, slack_user_id, channel_id>>

\* lines 189-193
PostDM ==
    /\ pc = "post_dm"
    /\ \E o \in SlackOutcomes :
         LET r == post_message(channel_id, <<>>, o)
         IN  /\ Log(r.call)
             /\ IF r.result = "True"
                THEN Return("0") /\ UNCHANGED raised
                ELSE Uncaught(r.result)
    /\ UNCHANGED <<env, author_email, blocks_author, slack_user_id, channel_id>>

\* lines 198-205
Fallback ==
    /\ pc = "fallback"
    /\ LET fallback == env.SLACK_FALLBACK_CHANNEL
       IN  IF fallback # ""
           THEN \E o \in SlackOutcomes :
                  LET r == post_message(fallback, AuthorOrUnknown(author_email), o)
                  IN  /\ Log(r.call)
                      /\ IF r.result \in {"True", "False"}
                         THEN Return("0") /\ UNCHANGED raised
                         ELSE Uncaught(r.result)
           ELSE /\ Return("0")
                /\ UNCHANGED <<calls, raised>>
    /\ UNCHANGED <<env, author_email, blocks_author, slack_user_id, channel_id>>

Next ==
    \/ StartupSafeDirectory
    \/ StartupUnshallow
    \/ TokenCheck
    \/ BranchFilter
    \/ run_git_show_email
    \/ AuthorFromCICommitAuthor
    \/ AuthorFromGitlabUserEmail
    \/ BuildMessage
    \/ ResolveFromMapping
    \/ lookup_user_id_by_email
    \/ open_dm
    \/ NoSlackUser
    \/ PostDM
    \/ Fallback

Spec == Init /\ [][Next]_vars

TypeOK ==
    /\ pc \in {"startup", "startup_fetch", "main", "filter", "git_show",
               "ci_commit_author", "gitlab_user_email", "build", "resolve_user",
               "lookup", "try_dm", "post_dm", "fallback", "done"}
    /\ exit_code \in {"running", "0", "1"}
    /\ raised \in {"", "UnboundLocalError"}
    /\ \A i \in 1..Len(calls) : calls[i].api \in SlackApis \cup GitApis
-----------------------------------------------------------------------------
(* Vocabulary of the properties *)

Done == pc = "done"

CallSet == {calls[i] : i \in 1..Len(calls)}

IsPost(c) == c.api = "chat_postMessage"

\* the DM post carries the bare summary, the fallback post appends the author
IsDMPost(c) == IsPost(c) /\ c.author = <<>>
IsFallbackPost(c) == IsPost(c) /\ c.author # <<>>

Branch == getenv(env.CI_COMMIT_REF_NAME, unknown)
BranchRegex == getenv(env.NOTIFY_BRANCH_REGEX, DEFAULT_BRANCH_REGEX)

\* the run got past the branch filter: from there on it always calls git show
PassedFilter == \E c \in CallSet : c.api = "git_show"

GitEmail == (CHOOSE c \in CallSet : c.api = "git_show").email
ParsedEmail == parse_email_from_ci_commit_author(env.CI_COMMIT_AUTHOR)

\* the three author sources have been consulted
AuthorResolved ==
    \/ pc \in {"build", "resolve_user", "lookup", "try_dm", "post_dm", "fallback"}
    \/ Done /\ PassedFilter

\* the identity mapper has returned
IdentityResolved ==
    \/ pc \in {"try_dm", "post_dm", "fallback"}
    \/ Done /\ PassedFilter

LookupCalls == {i \in 1..Len(calls) : calls[i].api = "users_lookupByEmail"}

DMPathFailed ==
    \/ \E c \in CallSet : c.api = "conversations_open" /\ (~c.ok \/ channel_id = "")
    \/ \E c \in CallSet : IsDMPost(c) /\ ~c.ok

-----------------------------------------------------------------------------
(* C1: every run ends with exit status 0, whatever each Slack call returns. *)
C1_AlwaysExitZero == Done => exit_code = "0"

(* C2: a failing sub-step of the DM path does not propagate as an exception; *)
(* the run goes on to the fallback step and, with SLACK_FALLBACK_CHANNEL      *)
(* set, attempts the fallback post.                                           *)
C2_DMFailureFallsThrough ==
    (Done /\ DMPathFailed) =>
        /\ raised = ""
        /\ env.SLACK_FALLBACK_CHANNEL # "" =>
              \E c \in CallSet : IsFallbackPost(c)

(* C3: every post goes to the destination main() resolved: the channel id   *)
(* conversations_open returned on the DM path, SLACK_FALLBACK_CHANNEL on the *)
(* fallback path, and to no other channel.                                   *)
C3_PostGoesToResolvedDestination ==
    \A c \in CallSet :
        /\ IsDMPost(c) => c.target = channel_id /\ channel_id # ""
        /\ IsFallbackPost(c) => c.target = env.SLACK_FALLBACK_CHANNEL

(* C4: at most one chat_postMessage call succeeds in a run, and once the DM  *)
(* post has succeeded the run is over: no fallback post is attempted after   *)
(* it.                                                                        *)
C4_AtMostOneNotification ==
    /\ Cardinality({i \in 1..Len(calls) : IsPost(calls[i]) /\ calls[i].ok}) <= 1
    /\ \A i \in 1..Len(calls) :
          (IsDMPost(calls[i]) /\ calls[i].ok) =>
              /\ Done
              /\ exit_code = "0"
              /\ \A j \in 1..Len(calls) : j > i => ~IsPost(calls[j])

C4_Witness ==
    /\ Done
    /\ env.SLACK_FALLBACK_CHANNEL # ""
    /\ \E c \in CallSet : IsDMPost(c) /\ c.ok

C6_ProceedsIffBranchMatches ==
    /\ (pc \notin {"startup", "startup_fetch", "main", "filter"}
          /\ env.SLACK_BOT_TOKEN # "") =>
            /\ PassedFilter \/ pc = "git_show" <=> re_search(BranchRegex, Branch)
            /\ env.NOTIFY_BRANCH_REGEX = {} => PassedFilter \/ pc = "git_show"
            /\ ~re_search(BranchRegex, Branch) =>
                  /\ Done
                  /\ exit_code = "0"
                  /\ \A c \in CallSet : c.api \notin SlackApis
    /\ (PassedFilter \/ pc = "git_show") => env.SLACK_BOT_TOKEN # ""

C6_Witness ==
    /\ Done
    /\ env.SLACK_BOT_TOKEN # ""
    /\ env.NOTIFY_BRANCH_REGEX # {}
    /\ ~re_search(BranchRegex, Branch)
    /\ exit_code = "0"

(* C7: with all three author sources empty the run makes no lookup, no       *)
(* open-conversation and no DM post, goes to the fallback step with the      *)
(* author shown as "unknown", and exits 0.                                   *)
C7_NoAuthorGoesToFallback ==
    (Done /\ PassedFilter /\ GitEmail = <<>> /\ ParsedEmail = <<>>
          /\ env.GITLAB_USER_EMAIL = <<>>) =>
        /\ \A c \in CallSet :
              /\ c.api \notin {"users_lookupByEmail", "conversations_open"}
              /\ ~IsDMPost(c)
              /\ IsFallbackPost(c) => c.author = unknown
        /\ blocks_author = unknown
        /\ env.SLACK_FALLBACK_CHANNEL # "" => \E c \in CallSet : IsFallbackPost(c)
        /\ exit_code = "0"

(* C8: the resolved e-mail is the git result when that is not empty, else    *)
(* the e-mail parsed from CI_COMMIT_AUTHOR when that is not empty, else      *)
(* GITLAB_USER_EMAIL; a later source never replaces an earlier non-empty one.*)
C8_AuthorTierOrder ==
    AuthorResolved =>
        /\ GitEmail # <<>> => author_email = GitEmail
        /\ (GitEmail = <<>> /\ ParsedEmail # <<>>) => author_email = ParsedEmail
        /\ (GitEmail = <<>> /\ ParsedEmail = <<>>) =>
              author_email = env.GITLAB_USER_EMAIL

C8_Witness ==
    /\ Done
    /\ PassedFilter
    /\ GitEmail = <<>>
    /\ ParsedEmail = b_x
    /\ env.GITLAB_USER_EMAIL = c_x
    /\ author_email = b_x

(* C9: when the static table holds a non-empty id for the resolved e-mail,   *)
(* that id is the identity and users_lookupByEmail is never called; when the *)
(* e-mail is not in the table, or the table is absent or malformed,          *)
(* users_lookupByEmail is called exactly once, with that e-mail.             *)
TableHit ==
    /\ env.SLACK_MAPPINGS_JSON.kind = "object"
    /\ author_email \in DOMAIN env.SLACK_MAPPINGS_JSON.table
    /\ env.SLACK_MAPPINGS_JSON.table[author_email] # ""

TableMiss ==
    \/ env.SLACK_MAPPINGS_JSON.kind # "object"
    \/ author_email \notin DOMAIN env.SLACK_MAPPINGS_JSON.table

C9_TableShortCircuitsLookup ==
    (IdentityResolved /\ author_email # <<>>) =>
        /\ TableHit =>
              /\ slack_user_id = env.SLACK_MAPPINGS_JSON.table[author_email]
              /\ LookupCalls = {}
        /\ TableMiss =>
              /\ Cardinality(LookupCalls) = 1
              /\ \A i \in LookupCalls : calls[i].email = author_email

C9_Witness ==
    /\ Done
    /\ PassedFilter
    /\ author_email = a_x
    /\ TableHit
    /\ slack_user_id = "U1"
    /\ LookupCalls = {}
    /\ \E c \in CallSet : c.api = "conversations_open" /\ c.target = "U1"

(* C10: when users_lookupByEmail fails with an API error nothing is raised:  *)
(* the identity is empty, no conversations_open call and no DM post are made,*)
(* and the run goes on to the fallback step, where post_message is called    *)
(* for SLACK_FALLBACK_CHANNEL when that is set.                              *)
LookupFailed == \E c \in CallSet : c.api = "users_lookupByEmail" /\ ~c.ok

====
